---- MODULE Spec2Model ----
(***************************************************************************)
(* Session / context-budget subsystem of fastapi-youtube-summary-chat:     *)
(* the Redis-backed message log with TTL, append with compaction, the      *)
(* token-budget trimmer and the ask orchestration, as written in           *)
(* app/conversational_ai (service.py, utils.py) and its two provider       *)
(* copies app/conversational_groq and app/conversational_openai.           *)
(***************************************************************************)
EXTENDS Integers, Sequences, FiniteSets, TLC

(***************************************************************************)
(* Texts.  Everything Redis stores and every message content is a string.  *)
(* A text is a pair <<tag, payload>>:                                      *)
(*   <<"str", s>>   a plain string s                                       *)
(*   <<"json", m>>  json.dumps(m) of a message m = {role, content}         *)
(*   <<"cat", ps>>  the texts ps joined (an f-string, " ".join)             *)
(* json.dumps is injective and json.loads is its partial inverse: it       *)
(* raises on every text that is not a JSON dump.                           *)
(***************************************************************************)
Str(s) == <<"str", s>>

Msg(r, c) == [role |-> r, content |-> c]

Dumps(m) == <<"json", m>>

IsJson(t) == t[1] = "json"

Loads(t) == t[2]

Cat(parts) == <<"cat", parts>>

\* f"Summary of earlier conversation: {summary_text}", summary_text = " ".join(parts)
SummaryText(parts) == Cat(<<Str("Summary of earlier conversation:")>> \o parts)

\* Token count of a plain string (len(enc.encode(s)) on the strings used here).
StrTokens(s) ==
  CASE s = "" -> 0
    [] s = "bb" -> 2
    [] s = "ccc" -> 3
    [] OTHER -> 1

RECURSIVE Tokens(_)
RECURSIVE PartsTokens(_)
\* len(enc.encode(text)): the punctuation and keys of a JSON dump cost 2 tokens,
\* a joined text costs the sum of its parts.
Tokens(t) ==
  CASE t[1] = "str" -> StrTokens(t[2])
    [] t[1] = "json" -> 2 + Tokens(t[2].content)
    [] OTHER -> PartsTokens(t[2])

PartsTokens(ps) ==
  IF ps = <<>> THEN 0 ELSE Tokens(Head(ps)) + PartsTokens(Tail(ps))

RECURSIVE count_tokens(_)
\* sum(len(enc.encode(m.get("content", ""))) for m in messages)
count_tokens(messages) ==
  IF messages = <<>> THEN 0
  ELSE Tokens(Head(messages).content) + count_tokens(Tail(messages))

(***************************************************************************)
(* trim_for_token_limit, one loop iteration at a time.                     *)
(***************************************************************************)
\* Bounds of the trimmer's inputs.
MaxTrimLen == 3
MaxLimit == 5

Variants == {"ai", "groq"}

\* conversational_ai: buffer = int(limit * 0.9); groq / openai: TOKEN_LIMIT itself.
Budget(variant, limit) ==
  IF variant = "ai" THEN (limit * 9) \div 10 ELSE limit

IsSystem(m) == m.role = "system"

RECURSIVE FirstNonSystemFrom(_, _)
FirstNonSystemFrom(messages, i) ==
  IF i > Len(messages) THEN 0
  ELSE IF ~IsSystem(messages[i]) THEN i
  ELSE FirstNonSystemFrom(messages, i + 1)

FirstAny(messages) == IF messages = <<>> THEN 0 ELSE 1

\* The index of the newest non-system message, 0 when there is none.
LastNonSystem(messages) ==
  IF \A i \in 1..Len(messages) : IsSystem(messages[i]) THEN 0
  ELSE CHOOSE i \in 1..Len(messages) :
         /\ ~IsSystem(messages[i])
         /\ \A j \in (i + 1)..Len(messages) : IsSystem(messages[j])

\* for i, msg in enumerate(messages): if msg.get("role") != "system": ... break
\* the index the scan stops at, 0 when the for loop runs to its end.
FirstNonSystem(messages) == FirstNonSystemFrom(messages, 1)

RemoveAt(messages, i) ==
  [j \in 1..(Len(messages) - 1) |-> IF j < i THEN messages[j] ELSE messages[j + 1]]

OverBudgetLoose(messages, budget) == count_tokens(messages) > budget + 1

\* while count_tokens(messages, provider) > buffer  /  if total_tokens <= TOKEN_LIMIT: break
OverBudget(messages, budget) == count_tokens(messages) > budget

TrimEntryScan == "scan"

\* The loop tests the budget before it evicts anything.
TrimEntry == "check"

\* Where control goes when the for loop finds no non-system message:
\* conversational_ai has "else: break"; groq / openai fall back into "while True".
AfterFruitlessScan(variant) == IF variant = "ai" THEN "returned" ELSE "check"


(***************************************************************************)
(* The Redis store and the requests.                                       *)
(***************************************************************************)
\* Configuration, scaled down (utils.py sets MAX_HISTORY_MESSAGES = 50,
\* config.py SESSION_TTL_SECONDS = 3600).
MAX_HISTORY_MESSAGES == 2
SESSION_TTL_SECONDS == 2

\* Token limits, scaled down (service.py: TOKEN_LIMIT = 5500 and
\* SUMMARY_TRIGGER_TOKENS = 1500; config.py: TOKEN_LIMITS, SUMMARY_TRIGGER).
TOKEN_LIMIT == 5
SUMMARY_TRIGGER_TOKENS == 2

\* Operations started in one run (interleaved; one at a time; one at a time
\* with the clock running), and ticks of the clock.
MaxOpsConc == 2
MaxOpsSeq == 3
MaxOpsTimed == 2
MaxClock == 2

Procs == {"p1", "p2"}

Sessions == {"s1", "s2"}

\* f"{config.REDIS_PREFIX}{session_id}" with session_id = None.
NoneKey == "None"

Keys == Sessions \cup {NoneKey}

\* An absent hash, and a key without expiry (or an absent key).
NoMeta == 0 - 1
NoTtl == 0 - 1

\* The content of the n-th operation's message or question.
ContentNames == <<"m1", "m2", "m3", "m4", "m5", "m6", "m7", "m8">>

ContentOf(n) == Str(ContentNames[n])

AnswerNames == <<"r1", "r2", "r3", "r4", "r5", "r6", "r7", "r8">>

AnswerOf(n) == Str(AnswerNames[n])

\* A stored entry that is not a JSON dump.
RawEntry == Str("raw")

VARIABLES
  log,       \* key -> the Redis list stored under <prefix><key>
  meta,      \* key -> created_at of the hash <prefix><key>:meta, NoMeta when absent
  ttlLog,    \* key -> remaining TTL of the list
  ttlMeta,   \* key -> remaining TTL of the hash
  now,       \* the clock (event loop time, Redis time)
  pr,        \* request -> its position and locals
  nops,      \* operations started so far
  rewrites,  \* key -> number of compactions that rewrote the list
  mode,      \* the run: whether requests interleave, how many, how many ticks
  backend,   \* which copy of service.py serves the requests
  tIn, tLimit, tVariant, tMsgs, tPc, tPass, tOut1,
  xIn,       \* the argument of the parsing function that is called
  xPc,       \* where that call is
  xOut       \* what it returned

svars == <<log, meta, ttlLog, ttlMeta, now, pr, nops, rewrites, mode, backend>>

xvars == <<xIn, xPc, xOut>>

tvars == <<tIn, tLimit, tVariant, tMsgs, tPc, tPass, tOut1, xIn, xPc, xOut>>

vars == <<log, meta, ttlLog, ttlMeta, now, pr, nops, rewrites, mode, backend,
          tIn, tLimit, tVariant, tMsgs, tPc, tPass, tOut1, xIn, xPc, xOut>>

\* ------------------------------------------------------------ Redis commands
\* LRANGE key start stop, with Redis's negative indices.
LRange(l, start, stop) ==
  LET n == Len(l)
      s0 == IF start < 0 THEN n + start ELSE start
      s == IF s0 < 0 THEN 0 ELSE s0
      e0 == IF stop < 0 THEN n + stop ELSE stop
      e == IF e0 >= n THEN n - 1 ELSE e0
  IN IF s > e THEN <<>> ELSE SubSeq(l, s + 1, e + 1)

\* EXISTS key: an empty list is no key.
Exists(k) == log[k] # <<>>

Rpush(k, v) ==
  /\ log' = [log EXCEPT ![k] = Append(@, v)]
  /\ UNCHANGED ttlLog

\* EXPIRE on an absent key does nothing.
ExpireKey(k) ==
  /\ ttlLog' = [ttlLog EXCEPT ![k] = IF Exists(k) THEN SESSION_TTL_SECONDS ELSE @]
  /\ UNCHANGED log

ExpireMeta(k) ==
  /\ ttlMeta' = [ttlMeta EXCEPT ![k] = IF meta[k] # NoMeta THEN SESSION_TTL_SECONDS ELSE @]
  /\ UNCHANGED meta

Delete(k) ==
  /\ log' = [log EXCEPT ![k] = <<>>]
  /\ ttlLog' = [ttlLog EXCEPT ![k] = NoTtl]

\* A DEL of the metadata key that deletes nothing.
DeleteMetaNot(k) == UNCHANGED <<meta, ttlMeta>>

DeleteMeta(k) ==
  /\ meta' = [meta EXCEPT ![k] = NoMeta]
  /\ ttlMeta' = [ttlMeta EXCEPT ![k] = NoTtl]

\* An LPOP that removes nothing.
LpopNot(k) == UNCHANGED <<log, ttlLog>>

\* LPOP removes the head; a list that becomes empty is removed with its TTL.
Lpop(k) ==
  /\ log' = [log EXCEPT ![k] = IF @ = <<>> THEN <<>> ELSE Tail(@)]
  /\ ttlLog' = [ttlLog EXCEPT ![k] = IF Len(log[k]) <= 1 THEN NoTtl ELSE @]

\* HSET key:meta created_at <now>: creates the hash, or overwrites the field.
Hset(k) ==
  /\ meta' = [meta EXCEPT ![k] = now]
  /\ UNCHANGED ttlMeta

\* ------------------------------------------------------------ decoding
\* try: json.loads(s)  except: {"role": "system", "content": s}
DecodeOrWrap(s) == IF IsJson(s) THEN Loads(s) ELSE Msg("system", s)

Wrap(s) == Msg("system", s)

\* A decoding in which one failure wraps every entry.
DecodeAllOrNone(strs) ==
  IF \A i \in 1..Len(strs) : IsJson(strs[i])
  THEN [i \in 1..Len(strs) |-> Loads(strs[i])]
  ELSE [i \in 1..Len(strs) |-> Msg("system", strs[i])]

\* get_history_async: the loop over str_list.
DecodeAll(strs) == [i \in 1..Len(strs) |-> DecodeOrWrap(strs[i])]

AllJson(strs) == \A i \in 1..Len(strs) : IsJson(strs[i])

\* append_message: one try block decodes old and recent; on any failure the
\* except branch wraps EVERY entry of both lists.
DecodeBoth(old_messages, recent_messages) ==
  IF AllJson(old_messages) /\ AllJson(recent_messages)
  THEN [old |-> [i \in 1..Len(old_messages) |-> Loads(old_messages[i])],
        recent |-> [i \in 1..Len(recent_messages) |-> Loads(recent_messages[i])]]
  ELSE [old |-> [i \in 1..Len(old_messages) |-> Wrap(old_messages[i])],
        recent |-> [i \in 1..Len(recent_messages) |-> Wrap(recent_messages[i])]]

Truthy(c) == c # Str("")

\* Only the content of the last old message.
ContentsOfLast(msgs) ==
  IF msgs = <<>> \/ ~Truthy(msgs[Len(msgs)].content) THEN <<>>
  ELSE <<msgs[Len(msgs)].content>>

RECURSIVE ContentsOf(_)
\* [m["content"] for m in old_messages if m.get("content")]
ContentsOf(msgs) ==
  IF msgs = <<>> THEN <<>>
  ELSE (IF Truthy(Head(msgs).content) THEN <<Head(msgs).content>> ELSE <<>>)
       \o ContentsOf(Tail(msgs))

\* summarize_and_store: new_history = [summary_msg] + recent_messages
NewHistory(old, recent) ==
  <<Msg("system", SummaryText(ContentsOf(old)))>> \o recent

DumpAll(msgs) == [i \in 1..Len(msgs) |-> Dumps(msgs[i])]

\* get_history_async(session_id, limit): lrange(key, max(0, -limit), -1) when
\* limit is truthy, lrange(key, 0, -1) otherwise.
LoadRange(l, limit) ==
  IF limit # 0
  THEN LRange(l, (IF 0 > 0 - limit THEN 0 ELSE 0 - limit), 0 - 1)
  ELSE LRange(l, 0, 0 - 1)

\* ------------------------------------------------------------ requests
IdleProc ==
  [pc |-> "idle", op |-> "-", n |-> 0, sid |-> "-", key |-> "-", role |-> "-",
   content |-> Str(""), length |-> 0, old |-> <<>>, hist |-> <<>>,
   exists |-> FALSE, pre |-> <<>>, post |-> <<>>, result |-> <<>>,
   during |-> FALSE, saving |-> "-", stage |-> "-", action |-> "-",
   context |-> Str(""), question |-> Str(""), messages |-> <<>>,
   reply |-> "-", answer |-> Str(""), created |-> NoMeta, before |-> <<>>]

AllIdle == \A q \in Procs : pr[q].pc = "idle"

\* trim_for_token_limit of groq / openai is a coroutine without an await: when
\* it spins, the event loop never runs another request again.
AnyHung == \E q \in Procs : pr[q].pc = "hung"

At(p, where) == pr[p].pc = where /\ ~AnyHung

Goto(p, r) == pr' = [pr EXCEPT ![p] = r]

StoreOps == {"ensure", "append", "load", "clear"}

Ops == StoreOps \cup {"ask"}

\* A context below and one above the summarization trigger.
ShortContext == Str("ctx")
LongContext == Str("ccc")

\* The (action, context) pairs asked: every pair when requests run one at a
\* time, a plain chat turn when they interleave.
AskInputs ==
  IF mode.seq
  THEN {<<"chat", ShortContext>>, <<"qa", ShortContext>>, <<"summary", LongContext>>}
  ELSE {<<"chat", ShortContext>>}

NoInput == <<"-", Str("")>>

\* A request arrives: an operation on a session.
Start(p) ==
  /\ At(p, "idle")
  /\ nops < mode.ops
  /\ mode.seq => AllIdle
  /\ \E o \in mode.menu, s \in mode.on :
       /\ o = "ask" => Cardinality({q \in Procs : pr[q].op = "ask"}) < mode.asks
       /\ \E in \in (IF o = "ask" THEN AskInputs ELSE {NoInput}) :
         Goto(p, [IdleProc EXCEPT
                    !.op = o, !.n = nops + 1, !.sid = s, !.key = s,
                    !.role = IF o = "append" THEN "user" ELSE "-",
                    !.content = IF o = "append" THEN ContentOf(nops + 1) ELSE Str(""),
                    !.saving = IF o = "append" THEN "compact" ELSE "-",
                    !.pre = IF o \in {"ensure", "ask"} THEN log[s] ELSE <<>>,
                    !.created = IF o \in {"ensure", "ask"} THEN meta[s] ELSE NoMeta,
                    !.action = in[1], !.context = in[2],
                    !.question = IF o = "ask" THEN ContentOf(nops + 1) ELSE Str(""),
                    !.pc = CASE o \in {"ensure", "ask"} -> "e_exists"
                             [] o = "append" -> "a_rpush"
                             [] o = "load" -> "l_lrange"
                             [] OTHER -> "c_delkey"])
  /\ nops' = nops + 1
  /\ UNCHANGED <<log, meta, ttlLog, ttlMeta, now, rewrites, mode, backend, tvars>>

\* The operation has returned; the request ends.
Finish(p) ==
  /\ At(p, "done") \/ At(p, "failed")
  /\ Goto(p, IdleProc)
  /\ UNCHANGED <<log, meta, ttlLog, ttlMeta, now, nops, rewrites, mode, backend, tvars>>

\* ---- create_session_if_missing
EExists(p) ==
  /\ At(p, "e_exists")
  /\ Goto(p, [pr[p] EXCEPT !.exists = Exists(pr[p].sid),
                           !.pc = IF Exists(pr[p].sid) THEN "e_refkey" ELSE "e_hset"])
  /\ UNCHANGED <<log, meta, ttlLog, ttlMeta, now, nops, rewrites, mode, backend, tvars>>

EHset(p) ==
  /\ At(p, "e_hset")
  /\ Hset(pr[p].sid)
  /\ Goto(p, [pr[p] EXCEPT !.pc = "e_expmeta"])
  /\ UNCHANGED <<log, ttlLog, now, nops, rewrites, mode, backend, tvars>>

EExpireMeta(p) ==
  /\ At(p, "e_expmeta")
  /\ ExpireMeta(pr[p].sid)
  /\ Goto(p, [pr[p] EXCEPT !.pc = "e_rpush"])
  /\ UNCHANGED <<log, ttlLog, now, nops, rewrites, mode, backend, tvars>>

Placeholder == Dumps(Msg("system", Str("")))

ERpush(p) ==
  /\ At(p, "e_rpush")
  /\ Rpush(pr[p].sid, Placeholder)
  /\ Goto(p, [pr[p] EXCEPT !.pc = "e_expkey"])
  /\ UNCHANGED <<meta, ttlMeta, now, nops, rewrites, mode, backend, tvars>>

EExpireKey(p) ==
  /\ At(p, "e_expkey")
  /\ ExpireKey(pr[p].sid)
  /\ Goto(p, [pr[p] EXCEPT !.pc = "e_lpop"])
  /\ UNCHANGED <<meta, ttlMeta, now, nops, rewrites, mode, backend, tvars>>

\* ask goes on to load the history; a bare create_session_if_missing returns.
AfterEnsure(p) == IF pr[p].op = "ask" THEN "k_load" ELSE "done"

ELpop(p) ==
  /\ At(p, "e_lpop")
  /\ Lpop(pr[p].sid)
  /\ Goto(p, [pr[p] EXCEPT !.pc = AfterEnsure(p)])
  /\ UNCHANGED <<meta, ttlMeta, now, nops, rewrites, mode, backend, tvars>>

ERefreshKey(p) ==
  /\ At(p, "e_refkey")
  /\ ExpireKey(pr[p].sid)
  /\ Goto(p, [pr[p] EXCEPT !.pc = "e_refmeta"])
  /\ UNCHANGED <<meta, ttlMeta, now, nops, rewrites, mode, backend, tvars>>

ERefreshMeta(p) ==
  /\ At(p, "e_refmeta")
  /\ ExpireMeta(pr[p].sid)
  /\ Goto(p, [pr[p] EXCEPT !.pc = AfterEnsure(p)])
  /\ UNCHANGED <<log, ttlLog, now, nops, rewrites, mode, backend, tvars>>

\* ---- append_message
ARpush(p) ==
  /\ At(p, "a_rpush")
  /\ Rpush(pr[p].sid, Dumps(Msg(pr[p].role, pr[p].content)))
  /\ Goto(p, [pr[p] EXCEPT !.before = log[pr[p].sid], !.pc = "a_expkey"])
  /\ UNCHANGED <<meta, ttlMeta, now, nops, rewrites, mode, backend, tvars>>

AExpireKey(p) ==
  /\ At(p, "a_expkey")
  /\ ExpireKey(pr[p].sid)
  /\ Goto(p, [pr[p] EXCEPT !.pc = "a_expmeta"])
  /\ UNCHANGED <<meta, ttlMeta, now, nops, rewrites, mode, backend, tvars>>

AExpireMeta(p) ==
  /\ At(p, "a_expmeta")
  /\ ExpireMeta(pr[p].sid)
  /\ Goto(p, [pr[p] EXCEPT !.pc = "a_llen"])
  /\ UNCHANGED <<log, ttlLog, now, nops, rewrites, mode, backend, tvars>>

\* ask appends the user turn, then the assistant turn, then returns.
AfterAppend(p) ==
  IF pr[p].op = "ask" /\ pr[p].stage = "user" THEN "k_assistant" ELSE "done"

NeedsCompactionLoose(length) == length > mode.max + 1

\* if length > MAX_HISTORY_MESSAGES
NeedsCompaction(length) == length > mode.max

ALlen(p) ==
  /\ At(p, "a_llen")
  /\ LET length == Len(log[pr[p].sid])
     IN Goto(p, [pr[p] EXCEPT !.length = length,
                              !.pc = IF NeedsCompaction(length)
                                     THEN "a_old" ELSE AfterAppend(p)])
  /\ UNCHANGED <<log, meta, ttlLog, ttlMeta, now, nops, rewrites, mode, backend, tvars>>

\* An old count that is one short.
OldCountShort(length) == length - MAX_HISTORY_MESSAGES - 1

\* old_count = length - MAX_HISTORY_MESSAGES
OldCount(length) == length - MAX_HISTORY_MESSAGES

ALrangeOld(p) ==
  /\ At(p, "a_old")
  /\ Goto(p, [pr[p] EXCEPT !.old = LRange(log[pr[p].sid], 0, OldCount(pr[p].length) - 1),
                           !.pc = "a_recent"])
  /\ UNCHANGED <<log, meta, ttlLog, ttlMeta, now, nops, rewrites, mode, backend, tvars>>

\* The second lrange, then (without another await) the decoding and
\* summarize_and_store up to save_history's first command.
ALrangeRecent(p) ==
  /\ At(p, "a_recent")
  /\ LET recent_messages == LRange(log[pr[p].sid], OldCount(pr[p].length), 0 - 1)
         d == DecodeBoth(pr[p].old, recent_messages)
     IN Goto(p, [pr[p] EXCEPT !.old = <<>>,
                              !.hist = DumpAll(NewHistory(d.old, d.recent)),
                              !.post = DumpAll(NewHistory(d.old, d.recent)),
                              !.pc = "s_delete"])
  /\ UNCHANGED <<log, meta, ttlLog, ttlMeta, now, nops, rewrites, mode, backend, tvars>>

\* ---- save_history
SDelete(p) ==
  /\ At(p, "s_delete")
  /\ Delete(pr[p].key)
  /\ rewrites' = [rewrites EXCEPT ![pr[p].key] = IF pr[p].saving = "compact" THEN @ + 1 ELSE @]
  /\ Goto(p, [pr[p] EXCEPT !.pre = IF pr[p].saving = "compact" THEN log[pr[p].key] ELSE @,
                           !.pc = IF pr[p].hist = <<>> THEN "s_expire" ELSE "s_rpush"])
  /\ UNCHANGED <<meta, ttlMeta, now, nops, mode, backend, tvars>>

SRpush(p) ==
  /\ At(p, "s_rpush")
  /\ Rpush(pr[p].key, Head(pr[p].hist))
  /\ Goto(p, [pr[p] EXCEPT !.hist = Tail(@),
                           !.pc = IF Tail(pr[p].hist) = <<>> THEN "s_expire" ELSE "s_rpush"])
  /\ UNCHANGED <<meta, ttlMeta, now, nops, rewrites, mode, backend, tvars>>

\* ---- ask: the prompt
SYSTEM_PROMPT == Msg("system", Str("Respond ONLY in valid JSON"))

HasRoleAndContent(m) == {"role", "content"} \subseteq DOMAIN m

\* normalize_messages: keep the entries that have a role and a content
\* (str(...).strip() changes none of the texts here).
normalize_messages(history) == SelectSeq(history, HasRoleAndContent)

RECURSIVE trim_for_token_limit(_, _, _)
\* The whole loop: the list it returns, or hung when it never returns.
trim_for_token_limit(messages, budget, variant) ==
  IF ~OverBudget(messages, budget) THEN [hung |-> FALSE, msgs |-> messages]
  ELSE LET i == FirstNonSystem(messages)
       IN IF i # 0 THEN trim_for_token_limit(RemoveAt(messages, i), budget, variant)
          ELSE [hung |-> AfterFruitlessScan(variant) # "returned", msgs |-> messages]

\* Only groq / openai trim the history before the system prompt is added.
EarlyTrim(variant, messages) ==
  IF variant = "ai" THEN [hung |-> FALSE, msgs |-> messages]
  ELSE trim_for_token_limit(messages, Budget(variant, TOKEN_LIMIT), variant)

\* if token_count > SUMMARY_TRIGGER_TOKENS
ContextTooLong(context) == Tokens(context) > SUMMARY_TRIGGER_TOKENS

\* question or context
OrElse(a, b) == IF Truthy(a) THEN a ELSE b

UserContent(action, context, question) ==
  CASE action = "qa" -> Cat(<<Str("Context:"), context, Str("Question:"), question>>)
    [] action = "summary" -> Cat(<<Str("Summarize the following content:"), context>>)
    [] action = "expand" -> Cat(<<Str("Expand and explain the following content:"), context>>)
    [] OTHER -> OrElse(question, context)

\* From safe_context's return to the completion call: the user turn is added
\* and the list trimmed.  safe_context returns "summary if summary else context",
\* and summarize_and_store returns None.
WithUserTurn(r, context) ==
  LET user_content == UserContent(r.action, context, r.question)
      t == trim_for_token_limit(Append(r.messages, Msg("user", user_content)),
                                Budget(backend, TOKEN_LIMIT), backend)
  IN [r EXCEPT !.content = user_content, !.messages = t.msgs,
               !.pc = IF t.hung THEN "hung" ELSE "k_call"]

\* Where save_history returns to: append_message, or safe_context inside ask.
AfterSave(p) ==
  IF pr[p].saving = "context"
  THEN WithUserTurn([pr[p] EXCEPT !.key = pr[p].sid], pr[p].context)
  ELSE [pr[p] EXCEPT !.pc = AfterAppend(p)]

SExpire(p) ==
  /\ At(p, "s_expire")
  /\ ExpireKey(pr[p].key)
  /\ Goto(p, AfterSave(p))
  /\ UNCHANGED <<meta, ttlMeta, now, nops, rewrites, mode, backend, tvars>>

\* ---- get_history_async
InSave(q, k) == pr[q].key = k /\ pr[q].pc \in {"s_rpush", "s_expire"}

LLrange(p) ==
  /\ At(p, "l_lrange")
  /\ LET k == pr[p].sid
         savers == {q \in Procs : InSave(q, k)}
     IN Goto(p, [pr[p] EXCEPT
                   !.result = DecodeAll(LoadRange(log[k], 0)),
                   !.during = savers # {},
                   !.pre = IF savers = {} THEN <<>> ELSE pr[CHOOSE q \in savers : TRUE].pre,
                   !.post = IF savers = {} THEN <<>> ELSE pr[CHOOSE q \in savers : TRUE].post,
                   !.pc = "done"])
  /\ UNCHANGED <<log, meta, ttlLog, ttlMeta, now, nops, rewrites, mode, backend, tvars>>

\* ---- ask
\* get_history_async(session_id, limit=MAX_HISTORY_MESSAGES), then without
\* another await: normalize, the early trim, the system prompt and
\* safe_context up to its first Redis command.
KLoad(p) ==
  /\ At(p, "k_load")
  /\ LET history == DecodeAll(LoadRange(log[pr[p].sid], MAX_HISTORY_MESSAGES))
         r == [pr[p] EXCEPT !.result = history]
         early == EarlyTrim(backend, normalize_messages(history))
         withPrompt == [r EXCEPT !.messages = Append(early.msgs, SYSTEM_PROMPT)]
     IN Goto(p, IF early.hung THEN [r EXCEPT !.messages = early.msgs, !.pc = "hung"]
                ELSE IF ContextTooLong(r.context)
                THEN [withPrompt EXCEPT
                        !.saving = "context", !.key = NoneKey,
                        !.hist = DumpAll(NewHistory(<<Msg("system", r.context)>>, <<>>)),
                        !.pc = "s_delete"]
                ELSE WithUserTurn(withPrompt, r.context))
  /\ UNCHANGED <<log, meta, ttlLog, ttlMeta, now, nops, rewrites, mode, backend, tvars>>

Replies == {"json", "plain"}

\* The replies the provider gives in a run: both kinds when requests run one
\* at a time, the JSON object when they interleave.
RepliesGiven == IF mode.seq THEN Replies ELSE {"json"}

\* assistant_text: a JSON object with the answer and three suggestions, or a
\* text without braces.
RawText(r, reply) ==
  IF reply = "json"
  THEN <<"obj", [answer |-> AnswerOf(r.n),
                 suggestions |-> <<Str("s1"), Str("s2"), Str("s3")>>]>>
  ELSE Str("no json here")

\* extract_json_from_text: the parsed object, or {} when the text holds none.
extract_json_from_text(text) ==
  IF text[1] = "obj" THEN [found |-> TRUE, parsed |-> text[2]]
  ELSE [found |-> FALSE, parsed |-> <<>>]

\* A string with whitespace around it, a number, and a key that is not there.
Padded(s) == <<"pad", s>>

Number(n) == <<"num", n>>

NoKey == <<"absent">>

IsString(v) == v[1] \in {"str", "pad", "cat", "json"}

\* s.strip()
Strip(v) == IF v[1] = "pad" THEN Str(v[2]) ELSE v

\* str(s)
PyStr(v) == IF v[1] = "num" THEN Str("5") ELSE v

\* seq[:n]
Take(seq, n) == SubSeq(seq, 1, IF Len(seq) < n THEN Len(seq) ELSE n)

\* The try block of ask on the text of the reply: {} has no key; an answer
\* that is no string has no strip(), and the except branch then takes the
\* raw text for the answer and no suggestions.
ParseReply(assistant_text) ==
  LET e == extract_json_from_text(assistant_text)
      answer == IF e.found /\ e.parsed.answer # NoKey THEN e.parsed.answer ELSE Str("")
      list == IF e.found THEN e.parsed.suggestions ELSE <<>>
  IN IF IsString(answer)
     THEN [answer |-> Strip(answer),
           suggestions |-> Take([i \in 1..Len(list) |-> Strip(PyStr(list[i]))], 3)]
     ELSE [answer |-> Strip(assistant_text), suggestions |-> <<>>]

\* answer = parsed.get("answer", "").strip(): no exception is raised on {},
\* so the except branch that takes the raw text does not run.
Answer(r, reply) == ParseReply(RawText(r, reply)).answer

\* suggestions = [... for s in parsed.get("suggestions", [])][:3]
Suggestions(r, reply) == ParseReply(RawText(r, reply)).suggestions

\* await call_model(messages): the provider answers, or the call raises and
\* ask with it.
KCall(p) ==
  /\ At(p, "k_call")
  /\ \/ \E reply \in RepliesGiven :
          Goto(p, [pr[p] EXCEPT !.reply = reply, !.answer = Answer(pr[p], reply),
                                !.role = "user", !.stage = "user",
                                !.saving = "compact", !.pre = <<>>,
                                !.post = <<>>, !.pc = "a_rpush"])
     \/ Goto(p, [pr[p] EXCEPT !.reply = "error", !.pc = "failed"])
  /\ UNCHANGED <<log, meta, ttlLog, ttlMeta, now, nops, rewrites, mode, backend, tvars>>

\* append_message(session_id, "assistant", answer) is entered.
KAssistant(p) ==
  /\ At(p, "k_assistant")
  /\ Goto(p, [pr[p] EXCEPT !.role = "assistant", !.content = pr[p].answer,
                           !.stage = "assistant", !.length = 0, !.post = <<>>,
                           !.pre = <<>>, !.pc = "a_rpush"])
  /\ UNCHANGED <<log, meta, ttlLog, ttlMeta, now, nops, rewrites, mode, backend, tvars>>

\* ---- clear_session
CDelKey(p) ==
  /\ At(p, "c_delkey")
  /\ Delete(pr[p].sid)
  /\ Goto(p, [pr[p] EXCEPT !.pc = "c_delmeta"])
  /\ UNCHANGED <<meta, ttlMeta, now, nops, rewrites, mode, backend, tvars>>

CDelMeta(p) ==
  /\ At(p, "c_delmeta")
  /\ DeleteMeta(pr[p].sid)
  /\ Goto(p, [pr[p] EXCEPT !.pc = "done"])
  /\ UNCHANGED <<log, ttlLog, now, nops, rewrites, mode, backend, tvars>>

\* ---- time
Aged(t) == IF t > 0 THEN t - 1 ELSE t

\* One second passes: every TTL runs down, and a key whose TTL reaches 0 is removed.
Tick ==
  /\ now < mode.ticks
  /\ mode.seq => AllIdle
  /\ now' = now + 1
  /\ log' = [k \in Keys |-> IF ttlLog[k] = 1 THEN <<>> ELSE log[k]]
  /\ ttlLog' = [k \in Keys |-> IF ttlLog[k] = 1 THEN NoTtl ELSE Aged(ttlLog[k])]
  /\ meta' = [k \in Keys |-> IF ttlMeta[k] = 1 THEN NoMeta ELSE meta[k]]
  /\ ttlMeta' = [k \in Keys |-> IF ttlMeta[k] = 1 THEN NoTtl ELSE Aged(ttlMeta[k])]
  /\ UNCHANGED <<pr, nops, rewrites, mode, backend, tvars>>

\* No parsing function is called.
ParseIdle ==
  /\ xIn = <<>>
  /\ xPc = "-"
  /\ xOut = <<>>

TrimIdle ==
  /\ ParseIdle
  /\ tIn = <<>>
  /\ tLimit = 0
  /\ tVariant = "ai"
  /\ tMsgs = <<>>
  /\ tPc = "returned"
  /\ tPass = 2
  /\ tOut1 = <<>>

EmptyStore ==
  /\ log = [k \in Keys |-> <<>>]
  /\ meta = [k \in Keys |-> NoMeta]
  /\ ttlLog = [k \in Keys |-> NoTtl]
  /\ ttlMeta = [k \in Keys |-> NoTtl]

\* A store that already holds a session whose log has an entry that is not JSON.
LegacyStore ==
  /\ log = [k \in Keys |-> IF k = "s1" THEN <<RawEntry>> ELSE <<>>]
  /\ meta = [k \in Keys |-> IF k = "s1" THEN 0 ELSE NoMeta]
  /\ ttlLog = [k \in Keys |-> IF k = "s1" THEN SESSION_TTL_SECONDS ELSE NoTtl]
  /\ ttlMeta = [k \in Keys |-> IF k = "s1" THEN SESSION_TTL_SECONDS ELSE NoTtl]

\* A store in which session s1 was created and has taken n appends, all at
\* time 0.
RECURSIVE EarlierAppends(_)
EarlierAppends(n) ==
  IF n = 0 THEN <<>>
  ELSE Append(EarlierAppends(n - 1), Dumps(Msg("user", Str("old"))))

UsedStore(n) ==
  /\ log = [k \in Keys |-> IF k = "s1" THEN EarlierAppends(n) ELSE <<>>]
  /\ meta = [k \in Keys |-> IF k = "s1" THEN 0 ELSE NoMeta]
  /\ ttlLog = [k \in Keys |-> IF k = "s1" THEN SESSION_TTL_SECONDS ELSE NoTtl]
  /\ ttlMeta = [k \in Keys |-> IF k = "s1" THEN SESSION_TTL_SECONDS ELSE NoTtl]

InitRequests ==
  /\ now = 0
  /\ pr = [p \in Procs |-> IdleProc]
  /\ nops = 0
  /\ rewrites = [k \in Keys |-> 0]

\* The store is empty, or s1 is one append below its maximum, or at it.
Init ==
  /\ \/ EmptyStore
     \/ UsedStore(MAX_HISTORY_MESSAGES - 1)
     \/ UsedStore(MAX_HISTORY_MESSAGES)
  /\ InitRequests
  /\ mode = [seq |-> FALSE, ops |-> MaxOpsConc, ticks |-> 0, menu |-> StoreOps,
             base |-> Len(log["s1"]), on |-> Sessions, asks |-> 2,
             max |-> MAX_HISTORY_MESSAGES]
  /\ backend = "ai"
  /\ TrimIdle

InitSeq ==
  /\ \/ EmptyStore
     \/ UsedStore(MAX_HISTORY_MESSAGES - 1)
     \/ UsedStore(MAX_HISTORY_MESSAGES)
     \/ LegacyStore
  /\ InitRequests
  /\ mode = [seq |-> TRUE, ops |-> MaxOpsSeq, ticks |-> 0, menu |-> Ops,
             base |-> Len(log["s1"]), on |-> Sessions, asks |-> 2,
             max |-> MAX_HISTORY_MESSAGES]
  /\ backend \in Variants
  /\ TrimIdle

InitTimed ==
  /\ EmptyStore \/ UsedStore(MAX_HISTORY_MESSAGES)
  /\ InitRequests
  /\ mode = [seq |-> TRUE, ops |-> MaxOpsTimed, ticks |-> MaxClock, menu |-> Ops,
             base |-> Len(log["s1"]), on |-> Sessions, asks |-> 2,
             max |-> MAX_HISTORY_MESSAGES]
  /\ backend = "ai"
  /\ TrimIdle

\* The store operations: create_session_if_missing, append_message,
\* get_history_async and clear_session, command by command.
Next ==
  \E p \in Procs :
       \/ Start(p) \/ Finish(p)
       \/ EExists(p) \/ EHset(p) \/ EExpireMeta(p) \/ ERpush(p) \/ EExpireKey(p)
       \/ ELpop(p) \/ ERefreshKey(p) \/ ERefreshMeta(p)
       \/ ARpush(p) \/ AExpireKey(p) \/ AExpireMeta(p) \/ ALlen(p)
       \/ ALrangeOld(p) \/ ALrangeRecent(p)
       \/ SDelete(p) \/ SRpush(p) \/ SExpire(p)
       \/ LLrange(p) \/ CDelKey(p) \/ CDelMeta(p)

\* The store operations and ask.
NextAsk == Next \/ \E p \in Procs : KLoad(p) \/ KCall(p) \/ KAssistant(p)

\* The requests, and time passing.
NextTimed == NextAsk \/ Tick

\* Interleaved store operations.
Spec == Init /\ [][Next]_vars

\* Requests one at a time.
SpecSeq == InitSeq /\ [][NextAsk]_vars

\* Requests one at a time, with time passing between them.
SpecTimed == InitTimed /\ [][NextTimed]_vars

(***************************************************************************)
(* Interleaved ask requests on one session.                                *)
(***************************************************************************)
MaxOpsAsks == 2

\* A MAX_HISTORY_MESSAGES that the turns of these asks do not reach (utils.py
\* sets it to 50): their appends do not compact.
RoomyHistory == 2 * MaxOpsAsks

InitAsks ==
  /\ EmptyStore
  /\ InitRequests
  /\ mode = [seq |-> FALSE, ops |-> MaxOpsAsks, ticks |-> 0, menu |-> {"ask"},
             base |-> Len(log["s1"]), on |-> {"s1"}, asks |-> MaxOpsAsks,
             max |-> RoomyHistory]
  /\ backend = "ai"
  /\ TrimIdle

\* The commands of ask.
NextAsks ==
  \E p \in Procs :
       \/ Start(p) \/ Finish(p)
       \/ EExists(p) \/ EHset(p) \/ EExpireMeta(p) \/ ERpush(p) \/ EExpireKey(p)
       \/ ELpop(p) \/ ERefreshKey(p) \/ ERefreshMeta(p)
       \/ KLoad(p) \/ KCall(p) \/ KAssistant(p)
       \/ ARpush(p) \/ AExpireKey(p) \/ AExpireMeta(p) \/ ALlen(p)

SpecAsks == InitAsks /\ [][NextAsks]_vars

(***************************************************************************)
(* An ask interleaved with clear_session requests while time passes.       *)
(***************************************************************************)
\* A store in which session s1 holds n messages and both its records have
\* one second left.
AgedStore(n) ==
  /\ log = [k \in Keys |-> IF k = "s1" THEN EarlierAppends(n) ELSE <<>>]
  /\ meta = [k \in Keys |-> IF k = "s1" THEN 0 ELSE NoMeta]
  /\ ttlLog = [k \in Keys |-> IF k = "s1" THEN 1 ELSE NoTtl]
  /\ ttlMeta = [k \in Keys |-> IF k = "s1" THEN 1 ELSE NoTtl]

MaxOpsClear == 2
MaxClockClear == 1

InitAskClear ==
  /\ EmptyStore \/ AgedStore(MAX_HISTORY_MESSAGES - 1)
  /\ InitRequests
  /\ mode = [seq |-> FALSE, ops |-> MaxOpsClear, ticks |-> MaxClockClear,
             menu |-> {"ask", "clear"}, base |-> Len(log["s1"]), on |-> {"s1"},
             asks |-> 1, max |-> MAX_HISTORY_MESSAGES]
  /\ backend = "ai"
  /\ TrimIdle

\* The commands of ask and of clear_session, and time passing.
NextAskClear ==
  \/ NextAsks
  \/ \E p \in Procs :
       \/ ALrangeOld(p) \/ ALrangeRecent(p)
       \/ SDelete(p) \/ SRpush(p) \/ SExpire(p)
       \/ CDelKey(p) \/ CDelMeta(p)
  \/ Tick

SpecAskClear == InitAskClear /\ [][NextAskClear]_vars

(***************************************************************************)
(* The trimmer on its own: every input list, limit and copy of the code.   *)
(***************************************************************************)
StoreIdle ==
  /\ EmptyStore
  /\ InitRequests
  /\ mode = [seq |-> TRUE, ops |-> 0, ticks |-> 0, menu |-> {}, base |-> 0,
             on |-> {}, asks |-> 0, max |-> MAX_HISTORY_MESSAGES]
  /\ backend = "ai"

TrimRoles == {"system", "user", "assistant"}

TrimContents == {Str("a"), Str("bb")}

TrimMessages == {Msg(r, c) : r \in TrimRoles, c \in TrimContents}

RECURSIVE SeqsUpTo(_, _)
SeqsUpTo(S, n) ==
  IF n = 0 THEN {<<>>}
  ELSE LET shorter == SeqsUpTo(S, n - 1)
       IN shorter \cup {Append(s, x) : s \in {q \in shorter : Len(q) = n - 1}, x \in S}

InitTrim ==
  /\ tIn \in SeqsUpTo(TrimMessages, MaxTrimLen)
  /\ tLimit \in 0..MaxLimit
  /\ tVariant \in Variants
  /\ tMsgs = tIn
  /\ tPc = TrimEntry
  /\ tPass = 1
  /\ tOut1 = <<>>
  /\ ParseIdle
  /\ StoreIdle

TrimCheck ==
  /\ tPc = "check"
  /\ tPc' = IF OverBudget(tMsgs, Budget(tVariant, tLimit)) THEN "scan" ELSE "returned"
  /\ UNCHANGED <<tIn, tLimit, tVariant, tMsgs, tPass, tOut1>>
  /\ UNCHANGED svars
  /\ UNCHANGED xvars

TrimScan ==
  /\ tPc = "scan"
  /\ LET i == FirstNonSystem(tMsgs)
     IN IF i # 0
        THEN /\ tMsgs' = RemoveAt(tMsgs, i)
             /\ tPc' = "check"
        ELSE /\ tMsgs' = tMsgs
             /\ tPc' = AfterFruitlessScan(tVariant)
  /\ UNCHANGED <<tIn, tLimit, tVariant, tPass, tOut1>>
  /\ UNCHANGED svars
  /\ UNCHANGED xvars

\* The returned list is trimmed a second time.
TrimAgain ==
  /\ tPc = "returned"
  /\ tPass = 1
  /\ tOut1' = tMsgs
  /\ tPass' = 2
  /\ tPc' = TrimEntry
  /\ UNCHANGED <<tIn, tLimit, tVariant, tMsgs>>
  /\ UNCHANGED svars
  /\ UNCHANGED xvars

NextTrim == TrimCheck \/ TrimScan \/ TrimAgain

SpecTrim == InitTrim /\ [][NextTrim]_vars

SpecTrimFair == SpecTrim /\ WF_vars(NextTrim)

(***************************************************************************)
(* extract_json_from_text on its own: every text up to a length.  A text   *)
(* is a sequence of characters; "k" stands for a key with its colon, "1"   *)
(* for a scalar value, "x" for any other character.                        *)
(***************************************************************************)
MaxTextLen == 5

Chars == {"{", "}", "k", "1", "x"}

Positions(text, c) == {i \in 1..Len(text) : text[i] = c}

\* str.rfind(c): the highest index of c, counted from 0, or -1.
rfind(text, c) ==
  IF Positions(text, c) = {} THEN 0 - 1
  ELSE (CHOOSE i \in Positions(text, c) : \A j \in Positions(text, c) : j <= i) - 1

\* A search that returns the last occurrence where the first is asked.
findLast(text, c) == rfind(text, c)

\* str.find(c): the lowest index of c, counted from 0, or -1.
find(text, c) ==
  IF Positions(text, c) = {} THEN 0 - 1
  ELSE (CHOOSE i \in Positions(text, c) : \A j \in Positions(text, c) : i <= j) - 1

\* text[a:b]
Slice(text, a, b) == SubSeq(text, a + 1, b)

JSONDecodeError == [ok |-> FALSE, value |-> <<>>]

Decoded(v) == [ok |-> TRUE, value |-> v]

RECURSIVE json_loads(_)
\* json.loads: an object is {} or { key value }, a value is a scalar or an
\* object; anything else raises JSONDecodeError.
json_loads(str) ==
  IF str = <<"1">> THEN Decoded(<<"num">>)
  ELSE IF Len(str) < 2 \/ str[1] # "{" \/ str[Len(str)] # "}" THEN JSONDecodeError
  ELSE LET inner == SubSeq(str, 2, Len(str) - 1)
       IN IF inner = <<>> THEN Decoded(<<"obj">>)
          ELSE IF inner[1] # "k" THEN JSONDecodeError
          ELSE LET v == json_loads(Tail(inner))
               IN IF v.ok THEN Decoded(<<"obj", v.value>>) ELSE JSONDecodeError

\* {}, ""
EmptyResult == [parsed |-> <<"obj">>, json_str |-> <<>>]

\* extract_json_from_text(text), on the characters of the text.
extract_json_from_chars(text) ==
  LET start == find(text, "{")
      end == rfind(text, "}")
  IN IF start # 0 - 1 /\ end # 0 - 1 /\ end > start
     THEN LET json_str == Slice(text, start, end + 1)
              parsed == json_loads(json_str)
          IN IF parsed.ok THEN [parsed |-> parsed.value, json_str |-> json_str]
             ELSE EmptyResult
     ELSE EmptyResult

InitExtract ==
  /\ xIn \in SeqsUpTo(Chars, MaxTextLen)
  /\ xPc = "called"
  /\ xOut = <<>>
  /\ tIn = <<>> /\ tLimit = 0 /\ tVariant = "ai" /\ tMsgs = <<>>
  /\ tPc = "returned" /\ tPass = 2 /\ tOut1 = <<>>
  /\ StoreIdle

\* The call returns: the function catches the one exception its parse raises.
ExtractReturn ==
  /\ xPc = "called"
  /\ xOut' = extract_json_from_chars(xIn)
  /\ xPc' = "returned"
  /\ UNCHANGED xIn
  /\ UNCHANGED <<tIn, tLimit, tVariant, tMsgs, tPc, tPass, tOut1>>
  /\ UNCHANGED svars

NextExtract == ExtractReturn

SpecExtract == InitExtract /\ [][NextExtract]_vars

(***************************************************************************)
(* The end of ask on its own: every reply of the provider up to a number   *)
(* of suggestions.                                                         *)
(***************************************************************************)
MaxSuggestions == 4

AnswerValues == {Str("r"), Padded("r"), Number(5), NoKey}

SuggestionValues == {Str("a"), Padded("b")}

\* What the completion holds: an object with an answer and a list of
\* suggestions, or a text without braces.
ReplyTexts ==
  {<<"obj", [answer |-> a, suggestions |-> l]>> :
     a \in AnswerValues, l \in SeqsUpTo(SuggestionValues, MaxSuggestions)}
  \cup {Str("no json here")}

InitReply ==
  /\ xIn \in ReplyTexts
  /\ xPc = "replied"
  /\ xOut = <<>>
  /\ tIn = <<>> /\ tLimit = 0 /\ tVariant = "ai" /\ tMsgs = <<>>
  /\ tPc = "returned" /\ tPass = 2 /\ tOut1 = <<>>
  /\ StoreIdle

\* From the reply to the return of ask, the two appends aside.
ReplyReturn ==
  /\ xPc = "replied"
  /\ xOut' = [action |-> "chat",
              response |-> ParseReply(xIn).answer,
              suggestions |-> ParseReply(xIn).suggestions,
              session_id |-> "s1"]
  /\ xPc' = "returned"
  /\ UNCHANGED xIn
  /\ UNCHANGED <<tIn, tLimit, tVariant, tMsgs, tPc, tPass, tOut1>>
  /\ UNCHANGED svars

NextReply == ReplyReturn

SpecReply == InitReply /\ [][NextReply]_vars

(***************************************************************************)
(* Properties of extract_json_from_text.                                   *)
(***************************************************************************)
FirstOpen(text) == CHOOSE i \in Positions(text, "{") : \A j \in Positions(text, "{") : i <= j

LastClose(text) == CHOOSE i \in Positions(text, "}") : \A j \in Positions(text, "}") : j <= i

\* The text has a '{' and a '}', the last '}' after the first '{'.
Delimited(text) ==
  /\ Positions(text, "{") # {}
  /\ Positions(text, "}") # {}
  /\ LastClose(text) > FirstOpen(text)

Between(text) == SubSeq(text, FirstOpen(text), LastClose(text))

C22_ResultIsWellFormed ==
  xPc = "returned"
  => /\ DOMAIN xOut = {"action", "response", "suggestions", "session_id"}
     /\ Len(xOut.suggestions) <= 3
     /\ xIn[1] = "obj"
        => LET supplied == xIn[2].suggestions
               n == Len(supplied)
           IN xOut.suggestions = SubSeq(supplied, 1, IF n < 3 THEN n ELSE 3)

(***************************************************************************)
(* Properties of the trimmer.                                              *)
(***************************************************************************)
TrimBudget == Budget(tVariant, tLimit)

SystemMessages(messages) == SelectSeq(messages, IsSystem)

OnlySystem(messages) == FirstNonSystemFrom(messages, 1) = 0

\* C6: every call of trim returns, for every list and budget: also when the
\* list is over the budget and holds only system messages.
C6_TrimTerminates == (tPc = "check") ~> (tPc = "returned")

\* C7: the list trim returns fits the budget, unless it holds no non-system
\* message.
C7_TrimFitsBudget ==
  tPc = "returned" => (count_tokens(tMsgs) <= TrimBudget \/ OnlySystem(tMsgs))

\* A call that evicted something and returned a list that fits, and one that
\* returned an all-system list over the budget.
C7_Witness ==
  /\ tPc = "returned"
  /\ tPass = 1
  /\ Len(tMsgs) < Len(tIn)
  /\ ~OnlySystem(tMsgs)
  /\ count_tokens(tMsgs) <= TrimBudget

\* C8: trim never removes a system message: the system messages of the input
\* are those of the list at every point of the loop, in the same order.
C8_TrimKeepsSystem == SystemMessages(tMsgs) = SystemMessages(tIn)

C8_Witness ==
  /\ tPc = "returned"
  /\ tPass = 1
  /\ Len(tMsgs) < Len(tIn)
  /\ SystemMessages(tIn) # <<>>
  /\ IsSystem(tIn[1])

\* C9: trim is idempotent: trimming the returned list again returns it unchanged.
C9_TrimIdempotent == (tPc = "returned" /\ tPass = 2) => tMsgs = tOut1

C9_Witness ==
  /\ tPc = "returned"
  /\ tPass = 2
  /\ Len(tOut1) < Len(tIn)
  /\ tOut1 # <<>>

RECURSIVE DropNonSystem(_, _)
\* The list without its first k non-system messages.
DropNonSystem(messages, k) ==
  IF k = 0 \/ messages = <<>> THEN messages
  ELSE IF IsSystem(Head(messages))
       THEN <<Head(messages)>> \o DropNonSystem(Tail(messages), k)
       ELSE DropNonSystem(Tail(messages), k - 1)

NonSystemCount(messages) == Len(messages) - Len(SystemMessages(messages))

Fits(messages) == count_tokens(messages) <= TrimBudget

\* The smallest k for which the list without its first k non-system messages
\* fits the budget or has no non-system message left.
Evictions(messages) ==
  CHOOSE k \in 0..NonSystemCount(messages) :
    /\ Fits(DropNonSystem(messages, k)) \/ k = NonSystemCount(messages)
    /\ \A j \in 0..(k - 1) : ~Fits(DropNonSystem(messages, j))

\* C25: the list trim returns is its input without the first k non-system
\* messages, k the smallest number for which the rest fits the budget or has
\* no non-system message; the messages kept are in their order.
C25_TrimEvictsOldestFirst ==
  /\ (tPc = "returned" /\ tPass = 1) => tMsgs = DropNonSystem(tIn, Evictions(tIn))
  /\ (tPc = "returned" /\ tPass = 2) => tMsgs = DropNonSystem(tOut1, Evictions(tOut1))

\* trim returned a list of three messages without its oldest non-system
\* message, a system message and a newer non-system message kept.
C25_Witness ==
  /\ tPc = "returned"
  /\ tPass = 1
  /\ Len(tIn) = 3
  /\ ~IsSystem(tIn[1]) /\ IsSystem(tIn[2]) /\ ~IsSystem(tIn[3])
  /\ tMsgs = Tail(tIn)

(***************************************************************************)
(* Properties of the session store under interleaved requests.             *)
(***************************************************************************)
RECURSIVE InText(_, _)
\* The text c is the text t, or a part of it.
InText(c, t) ==
  \/ c = t
  \/ t[1] = "cat" /\ \E i \in 1..Len(t[2]) : InText(c, t[2][i])
  \/ t[1] = "json" /\ InText(c, t[2].content)

\* The content c is in the log: as a message of it or inside its summary.
Held(l, c) == \E i \in 1..Len(l) : InText(c, DecodeOrWrap(l[i]).content)

AppendReturned(p, k) ==
  pr[p].op = "append" /\ pr[p].sid = k /\ pr[p].pc = "done"

\* C1: two appends on a session whose log is one message below the maximum,
\* both returned: the log holds both messages and was compacted at most once.
C1_ConcurrentAppendsKeepBoth ==
  \A k \in Sessions :
    ( /\ mode.base = MAX_HISTORY_MESSAGES - 1
      /\ k = "s1"
      /\ AppendReturned("p1", k)
      /\ AppendReturned("p2", k) )
    => /\ Held(log[k], pr["p1"].content)
       /\ Held(log[k], pr["p2"].content)
       /\ rewrites[k] <= 1

\* C2: a load that runs while a compaction rewrites the log returns the whole
\* log of before the compaction or the whole log of after it.
C2_LoadSeesWholeLog ==
  \A p \in Procs :
    (pr[p].op = "load" /\ pr[p].pc = "done" /\ pr[p].during)
    => \/ pr[p].result = DecodeAll(pr[p].pre)
       \/ pr[p].result = DecodeAll(pr[p].post)

\* From its push to the end of its rewrite.
InAppendSequence(p, k) ==
  /\ pr[p].op = "append"
  /\ pr[p].sid = k
  /\ pr[p].pc \in {"a_expkey", "a_expmeta", "a_llen", "a_old", "a_recent",
                   "s_delete", "s_rpush", "s_expire"}

\* From its length read to the end of its rewrite.
InRewriteWindow(p, k) ==
  /\ pr[p].op = "append"
  /\ pr[p].sid = k
  /\ pr[p].pc \in {"a_old", "a_recent", "s_delete", "s_rpush", "s_expire"}

\* C3: the append sequences of one session exclude each other, and between a
\* length read and the end of the rewrite nothing but the rewriting request
\* changes the log of the session.
C3_AppendsExcludeEachOther ==
  [][ /\ \A p, q \in Procs, k \in Sessions :
           p # q => ~(InAppendSequence(p, k)' /\ InAppendSequence(q, k)')
      /\ \A p \in Procs, k \in Sessions :
           (InRewriteWindow(p, k) /\ log'[k] # log[k]) => pr'[p] # pr[p] ]_vars

\* The stored entry is a synthetic summary message.
IsSummary(s) ==
  /\ IsJson(s)
  /\ Loads(s).content[1] = "cat"
  /\ Loads(s).content[2][1] = Str("Summary of earlier conversation:")

\* The request is between the length read that found the log too long and
\* the end of its rewrite.
Compacting(p) ==
  /\ pr[p].saving = "compact"
  /\ pr[p].pc \in {"a_old", "a_recent", "s_delete", "s_rpush", "s_expire"}

\* A step of create_session_if_missing, and a step of append_message before
\* its rewrite.
EnsureStep(p) ==
  /\ pr[p].op = "ensure"
  /\ pr'[p] # pr[p]
  /\ pr[p].pc \notin {"idle", "done"}

AppendStep(p) ==
  /\ pr[p].op = "append"
  /\ pr'[p] # pr[p]
  /\ pr[p].pc \in {"a_rpush", "a_expkey", "a_expmeta", "a_llen", "a_old", "a_recent"}

\* Every stored message of l, the placeholder of create_session_if_missing
\* aside, is in m.
MessagesKept(l, m) ==
  \A i \in 1..Len(l) : l[i] # Placeholder => \E j \in 1..Len(m) : m[j] = l[i]

\* C20: while no compaction is in progress a stored log has at most one
\* summary message, with role system and at position 0; the steps of
\* create_session_if_missing and of append_message outside its compaction
\* remove no stored message.
C20_OneSummaryAndNoRemoval ==
  [][ /\ (\A p \in Procs : ~Compacting(p)')
         => \A k \in Sessions : \A i \in 1..Len(log'[k]) :
              IsSummary(log'[k][i]) => (i = 1 /\ Loads(log'[k][i]).role = "system")
      /\ \A p \in Procs :
           (EnsureStep(p) \/ AppendStep(p))
           => \A k \in Sessions : MessagesKept(log[k], log'[k]) ]_vars

(***************************************************************************)
(* Properties of requests that run one at a time.                          *)
(***************************************************************************)
\* An append_message call of p has returned after compacting the log.
Compacted(p) ==
  /\ pr[p].op \in {"append", "ask"}
  /\ pr[p].pc \in {"done", "k_assistant"}
  /\ pr[p].saving = "compact"
  /\ pr[p].post # <<>>

\* C4: after a compaction the log is one summary followed by the last
\* MAX_HISTORY_MESSAGES entries of the log of before, each with the role and
\* content it had, also when an entry of the log is not JSON.
C4_CompactionKeepsRecent ==
  \A p \in Procs :
    Compacted(p)
    => LET after == log[pr[p].sid]
           before == pr[p].pre
       IN /\ Len(after) = 1 + MAX_HISTORY_MESSAGES
          /\ \A i \in 1..MAX_HISTORY_MESSAGES :
               DecodeOrWrap(after[1 + i])
                 = DecodeOrWrap(before[Len(before) - MAX_HISTORY_MESSAGES + i])

\* An append_message call of p has returned.
AppendMessageReturned(p) ==
  \/ pr[p].op = "append" /\ pr[p].pc = "done"
  \/ pr[p].op = "ask" /\ pr[p].pc = "k_assistant"
  \/ pr[p].op = "ask" /\ pr[p].pc = "done" /\ pr[p].stage = "assistant"

\* C5: when append_message(role, content) has returned, the last message a
\* load returns is {role, content}, and the log and the metadata of the
\* session have the full time to live.
C5_AppendThenLoad ==
  \A p \in Procs :
    AppendMessageReturned(p)
    => LET k == pr[p].sid
           history == DecodeAll(LoadRange(log[k], 0))
       IN /\ history # <<>>
          /\ history[Len(history)] = Msg(pr[p].role, pr[p].content)
          /\ ttlLog[k] = SESSION_TTL_SECONDS
          /\ meta[k] # NoMeta => ttlMeta[k] = SESSION_TTL_SECONDS

\* ask is between its load and its completion call.
BuildingPrompt(p) ==
  /\ pr[p].op = "ask"
  /\ \/ pr[p].pc = "k_load"
     \/ pr[p].saving = "context" /\ pr[p].pc \in {"s_delete", "s_rpush", "s_expire"}

\* C10: from the load to the completion call, ask changes the stored log of
\* no session.
C10_PromptLeavesStore ==
  [][ (\E p \in Procs : BuildingPrompt(p)) => log' = log ]_vars

\* ask is about to pass pr[p].messages to the completion provider.
Calling(p) == pr[p].op = "ask" /\ pr[p].pc = "k_call"

\* C11: when the context of ask has more tokens than the summarization
\* trigger, the user turn passed to the provider holds the summary of the
\* context, and no message passed to the provider holds the context itself.
C11_LongContextNeverSent ==
  \A p \in Procs :
    (Calling(p) /\ ContextTooLong(pr[p].context))
    => LET messages == pr[p].messages
       IN /\ \A i \in 1..Len(messages) : ~InText(pr[p].context, messages[i].content)
          /\ \A i \in 1..Len(messages) :
               messages[i] = Msg("user", pr[p].content)
               => InText(SummaryText(<<pr[p].context>>), messages[i].content)

\* ask has returned its result to the caller.
AskReturned(p) == pr[p].op = "ask" /\ pr[p].pc = "done"

\* C12: when the text of the model holds no JSON object, ask returns the whole
\* text as response and no suggestions, and the assistant message it stored
\* carries that text.
C12_PlainReplyIsTheAnswer ==
  \A p \in Procs :
    (AskReturned(p) /\ ~extract_json_from_text(RawText(pr[p], pr[p].reply)).found)
    => LET l == log[pr[p].sid]
       IN /\ pr[p].answer = RawText(pr[p], pr[p].reply)
          /\ Suggestions(pr[p], pr[p].reply) = <<>>
          /\ l # <<>>
          /\ DecodeOrWrap(l[Len(l)]) = Msg("assistant", RawText(pr[p], pr[p].reply))

\* create_session_if_missing has returned; pr[p].pre is the log and
\* pr[p].created the metadata it found.
EnsureReturned(p) ==
  \/ pr[p].op = "ensure" /\ pr[p].pc = "done"
  \/ pr[p].op = "ask" /\ pr[p].pc = "k_load"

\* C13: create_session_if_missing with an explicit id leaves the stored log
\* of the session as it was, empty or not, with no placeholder in it, and
\* leaves the metadata record the session had, or the one record it created
\* for a session that had neither log nor metadata: only TTLs change.
C13_EnsureKeepsContent ==
  \A p \in Procs :
    EnsureReturned(p)
    => /\ log[pr[p].sid] = pr[p].pre
       /\ pr[p].created # NoMeta => meta[pr[p].sid] = pr[p].created
       /\ pr[p].pre = <<>> => meta[pr[p].sid] # NoMeta

\* Session k has no record in the store.
Absent(k) ==
  log[k] = <<>> /\ meta[k] = NoMeta /\ ttlLog[k] = NoTtl /\ ttlMeta[k] = NoTtl

\* The next step is a command of clear_session of p.
ClearStep(p) == pr[p].pc \in {"c_delkey", "c_delmeta"} /\ pr'[p] # pr[p]

\* The next step is the lrange of a load of p.
LoadStep(p) == pr[p].pc = "l_lrange" /\ pr'[p] # pr[p]

\* C16: clear_session(S) deletes the log and the metadata of S, the load that
\* follows it returns the empty history, and clearing a session that does not
\* exist returns and changes nothing in the store.
C16_ClearThenLoadIsEmpty ==
  [][ \A p \in Procs :
        /\ (ClearStep(p) /\ pr'[p].pc = "done") => Absent(pr[p].sid)'
        /\ ClearStep(p)
           => /\ pr'[p].pc \in {"c_delmeta", "done"}
              /\ \A k \in Keys \ {pr[p].sid} :
                   /\ log'[k] = log[k] /\ meta'[k] = meta[k]
                   /\ ttlLog'[k] = ttlLog[k] /\ ttlMeta'[k] = ttlMeta[k]
              /\ Absent(pr[p].sid) => Absent(pr[p].sid)'
        /\ (LoadStep(p) /\ Absent(pr[p].sid))
           => pr'[p].pc = "done" /\ pr'[p].result = <<>> ]_vars

\* A session with a log and metadata was cleared, and the load that followed
\* has returned the empty history.
C16_Witness ==
  \E p \in Procs :
    /\ mode.seq
    /\ mode.base > 0
    /\ nops = 2
    /\ pr[p].op = "load" /\ pr[p].n = 2 /\ pr[p].sid = "s1" /\ pr[p].pc = "done"
    /\ pr[p].result = <<>>
    /\ Absent("s1")

\* C17: when the completion call fails, ask fails having appended neither
\* turn, and the log of the session is as it was before the ask; the provider
\* is called at most once in an ask, and before any append of that ask.
C17_FailedCallStoresNothing ==
  [][ \A p \in Procs :
        pr'[p].op = "ask"
        => /\ pr'[p].pc = "failed"
              => /\ log'[pr'[p].sid] = pr'[p].pre
                 /\ pr'[p].stage = "-"
           /\ (pr'[p].pc = "k_call" /\ pr[p].pc # "k_call") => pr[p].reply = "-"
           /\ pr'[p].stage # "-" => pr'[p].reply \in Replies ]_vars

\* The completion call of an ask on a session with a stored log has failed.
C17_Witness ==
  \E p \in Procs :
    /\ pr[p].op = "ask"
    /\ pr[p].pc = "failed"
    /\ pr[p].reply = "error"
    /\ pr[p].pre # <<>>
    /\ log[pr[p].sid] = pr[p].pre

\* The last min(n, Len(l)) entries of l.
LastEntries(l, n) ==
  SubSeq(l, Len(l) - (IF n < Len(l) THEN n ELSE Len(l)) + 1, Len(l))

\* The step in which the load of an ask returns.
AskLoadStep(p) == pr[p].op = "ask" /\ pr[p].pc = "k_load" /\ pr'[p].pc # "k_load"

\* C18: a load with a limit returns the last min(limit, length) entries of
\* the stored log in stored order, a load without a limit the whole log; the
\* load of ask never returns more than MAX_HISTORY_MESSAGES entries.
C18_LoadHonoursLimit ==
  [][ \A p \in Procs :
        /\ (LoadStep(p) /\ pr'[p].pc = "done")
           => pr'[p].result = DecodeAll(log[pr[p].sid])
        /\ AskLoadStep(p)
           => /\ pr'[p].result
                   = DecodeAll(LastEntries(log[pr[p].sid], MAX_HISTORY_MESSAGES))
              /\ Len(pr'[p].result) <= MAX_HISTORY_MESSAGES ]_vars

\* history is the stored range entry by entry: the decoded message where the
\* entry is JSON, a system message carrying the stored text where it is not.
EntryByEntry(history, range) ==
  /\ Len(history) = Len(range)
  /\ \A i \in 1..Len(range) :
       IF IsJson(range[i])
       THEN history[i] = Loads(range[i])
       ELSE history[i] = [role |-> "system", content |-> range[i]]

\* C19: a load returns a history as long as the stored range, in which every
\* entry that does not decode is a system message with the stored text as its
\* content, and every entry that decodes is that entry, at its position.
C19_DecodeFailuresStayLocal ==
  [][ \A p \in Procs :
        /\ (LoadStep(p) /\ pr'[p].pc = "done")
           => EntryByEntry(pr'[p].result, log[pr[p].sid])
        /\ AskLoadStep(p)
           => EntryByEntry(pr'[p].result,
                           LoadRange(log[pr[p].sid], MAX_HISTORY_MESSAGES)) ]_vars

\* A load has returned a log in which an entry that is not JSON stands before
\* one that is.
C19_Witness ==
  \E p \in Procs :
    /\ pr[p].op = "load" /\ pr[p].pc = "done"
    /\ Len(log[pr[p].sid]) = 2
    /\ ~IsJson(log[pr[p].sid][1]) /\ IsJson(log[pr[p].sid][2])
    /\ pr[p].result = <<Msg("system", log[pr[p].sid][1]), Loads(log[pr[p].sid][2])>>
    /\ pr[p].result[2].role = "user"

\* The log once append_message has pushed its message.
Pushed(p) == Append(pr[p].before, Dumps(Msg(pr[p].role, pr[p].content)))

\* C23: append_message compacts exactly when the log is longer than
\* MAX_HISTORY_MESSAGES after its push, and has finished the rewrite when it
\* returns; when it does not compact, the log is the log of before with the
\* message at its end.
C23_CompactsExactlyWhenTooLong ==
  \A p \in Procs :
    AppendMessageReturned(p)
    => /\ (pr[p].post # <<>>) <=> (Len(Pushed(p)) > MAX_HISTORY_MESSAGES)
       /\ Len(Pushed(p)) <= MAX_HISTORY_MESSAGES => log[pr[p].sid] = Pushed(p)
       /\ Len(Pushed(p)) > MAX_HISTORY_MESSAGES
          => /\ pr[p].pre = Pushed(p)
             /\ pr[p].hist = <<>>
             /\ log[pr[p].sid] = pr[p].post

\* An append on a log that was at its maximum has returned, the log rewritten.
C23_Witness ==
  \E p \in Procs :
    /\ pr[p].op = "append" /\ pr[p].pc = "done"
    /\ Len(pr[p].before) = MAX_HISTORY_MESSAGES
    /\ pr[p].post # <<>>
    /\ log[pr[p].sid] = pr[p].post

\* C24: when requests run one at a time and none is in progress, no log is
\* longer than MAX_HISTORY_MESSAGES + 1.
C24_LogStaysBounded ==
  AllIdle => \A k \in Sessions : Len(log[k]) <= MAX_HISTORY_MESSAGES + 1

\* A log was compacted twice and holds the summary and the recent messages.
C24_Witness ==
  /\ AllIdle
  /\ rewrites["s1"] = 2
  /\ Len(log["s1"]) = MAX_HISTORY_MESSAGES + 1

RECURSIVE Leaves(_), LeavesOfAll(_)
\* The plain strings a text is made of, in their order: the parts of a
\* joined text, the content of a dumped message; the empty string and the
\* heading of a summary are left out.
Leaves(t) ==
  CASE t[1] = "cat" -> LeavesOfAll(t[2])
    [] t[1] = "json" -> Leaves(t[2].content)
    [] t[1] = "str" ->
         IF t[2] = "" \/ t[2] = "Summary of earlier conversation:" THEN <<>> ELSE <<t>>
    [] OTHER -> <<t>>

LeavesOfAll(parts) ==
  IF parts = <<>> THEN <<>> ELSE Leaves(Head(parts)) \o LeavesOfAll(Tail(parts))

\* The contents a log holds, those inside its summary included.
LogLeaves(l) == LeavesOfAll([i \in 1..Len(l) |-> DecodeOrWrap(l[i]).content])

C27_PromptEndsWithUserTurn ==
  \A p \in Procs :
    Calling(p)
    => LET messages == pr[p].messages
       IN /\ messages # <<>>
          /\ messages[Len(messages)] = Msg("user", pr[p].content)
          /\ \E i \in 1..Len(messages) : messages[i] = SYSTEM_PROMPT

\* C29: a step of an ask or of an append for a session changes the log, the
\* metadata and the times to live of no other key, also when ask stores the
\* summary of a long context.
C29_OtherSessionsUntouched ==
  [][ \A p \in Procs :
        (pr[p].op \in {"ask", "append"} /\ pr'[p] # pr[p])
        => \A k \in Keys \ {pr[p].sid} :
             /\ log'[k] = log[k] /\ meta'[k] = meta[k]
             /\ ttlLog'[k] = ttlLog[k] /\ ttlMeta'[k] = ttlMeta[k] ]_vars

(***************************************************************************)
(* The placeholder of create_session_if_missing under interleaved requests.*)
(***************************************************************************)
\* A create_session_if_missing on k is between its push and its pop.
PlaceholderPending(k) ==
  \E q \in Procs : pr[q].sid = k /\ pr[q].pc \in {"e_expkey", "e_lpop"}

\* The step in which create_session_if_missing pops.
PopStep(p) == pr[p].pc = "e_lpop" /\ pr'[p].pc # "e_lpop"

\* C30: however create_session_if_missing interleaves with the appends on
\* its session, its pop removes the placeholder and no message of another
\* request, no load returns the placeholder, and the placeholder is in no
\* log once the call that pushed it has returned.
C30_PlaceholderNeverObserved ==
  [][ /\ \A p \in Procs :
           /\ PopStep(p)
              => /\ log[pr[p].sid] # <<>>
                 /\ Head(log[pr[p].sid]) = Placeholder
           /\ (LoadStep(p) /\ pr'[p].pc = "done")
              => \A i \in 1..Len(pr'[p].result) : pr'[p].result[i] # Loads(Placeholder)
      /\ \A k \in Sessions :
           ~PlaceholderPending(k)'
           => \A i \in 1..Len(log'[k]) : log'[k][i] # Placeholder ]_vars

(***************************************************************************)
(* Properties of interleaved ask requests.                                 *)
(***************************************************************************)
\* The user turn ask stores, and the step in which it pushes its assistant
\* turn.
UserTurn(p) ==
  Dumps(Msg("user", UserContent(pr[p].action, pr[p].context, pr[p].question)))

AssistantPush(p) ==
  /\ pr[p].op = "ask"
  /\ pr[p].stage = "assistant"
  /\ pr[p].pc = "a_rpush"
  /\ pr'[p].pc # "a_rpush"

\* C31: however asks on one session interleave, the assistant turn of an ask
\* is stored right behind the user turn of that ask.
C31_TurnsStayTogether ==
  [][ \A p \in Procs :
        AssistantPush(p)
        => LET l == log[pr[p].sid]
           IN /\ l # <<>>
              /\ l[Len(l)] = UserTurn(p)
              /\ log'[pr[p].sid] = Append(l, Dumps(Msg("assistant", pr[p].answer))) ]_vars

\* C32: however ask, clear_session and expiry interleave, a session with a
\* stored log has its metadata record.
C32_LogHasMetadata ==
  \A k \in Sessions : log[k] # <<>> => meta[k] # NoMeta

(***************************************************************************)
(* Properties of requests that run one at a time while time passes.        *)
(***************************************************************************)
\* C14: created_at is set once: while the metadata of a session is neither
\* expired nor cleared, no step changes its created_at, also when the log of
\* the session is still empty.
C14_CreatedAtSetOnce ==
  [][ \A k \in Sessions :
        (meta[k] # NoMeta /\ meta'[k] # NoMeta) => meta'[k] = meta[k] ]_vars

\* Both records of session k exist.
BothRecords(k) == log[k] # <<>> /\ meta[k] # NoMeta

\* C15: the log and the metadata of a session carry the same TTL: when an
\* ensure or an append (with its compaction) has returned, both records of
\* the session have the full TTL (after an append: the log, and the metadata
\* the session has), and no expiry removes one of the two records of a
\* session while the other survives.
C15_RecordsExpireTogether ==
  [][ /\ \A p \in Procs :
           EnsureReturned(p)'
           => /\ ttlLog'[pr'[p].sid] = SESSION_TTL_SECONDS
              /\ ttlMeta'[pr'[p].sid] = SESSION_TTL_SECONDS
      /\ \A p \in Procs :
           AppendMessageReturned(p)'
           => /\ ttlLog'[pr'[p].sid] = SESSION_TTL_SECONDS
              /\ meta'[pr'[p].sid] # NoMeta => ttlMeta'[pr'[p].sid] = SESSION_TTL_SECONDS
      /\ \A k \in Sessions :
           (now' # now /\ BothRecords(k))
           => ((log'[k] = <<>>) <=> (meta'[k] = NoMeta)) ]_vars

\* C28: a load of a session resets the time to live of its log and of its
\* metadata to SESSION_TTL_SECONDS.
C28_LoadRefreshesTtl ==
  [][ \A p \in Procs :
        (LoadStep(p) /\ pr'[p].pc = "done")
        => LET k == pr[p].sid
           IN /\ log[k] # <<>> => ttlLog'[k] = SESSION_TTL_SECONDS
              /\ meta[k] # NoMeta => ttlMeta'[k] = SESSION_TTL_SECONDS ]_vars

====
